---- MODULE Spec2Model ----
(***************************************************************************)
(* Junction-tree construction and Hugin propagation of afcarl/junction-tree *)
(* (src/bp.py, src/junction_tree.py).                                       *)
(*                                                                          *)
(* Keys are the single-character labels the triangulation code works on     *)
(* (it takes set(var) of a label): key i stands for the i-th letter, and    *)
(* the order of the integers is the order of the letters, which heapq uses  *)
(* to break ties between heap entries.                                      *)
(* A Python list of keys (a factor, a cluster, a clique, a separator) is    *)
(* modelled by the set of its keys: einsum addresses axes by key, never by  *)
(* position, so no operation reads the order of such a list.                *)
(* A tree is the nested list of the code, a sequence                        *)
(*     <<id, keys, <<sep_id, sep_keys, child>>, ...>>.                      *)
(* A potential is an array over the assignments of its keys; its entries    *)
(* are exact fractions, so equality of tables is equality without rounding. *)
(* junction_tree.py names bp.get_clique_of_key and passes hugin a shrink     *)
(* mapping; bp.py holds them as get_clique_of_var and as hugin without the   *)
(* mapping, and these are what the model follows.                           *)
(***************************************************************************)
EXTENDS Integers, Sequences, FiniteSets, Bags, TLC

VARIABLES
    pc,               \* position of the driver
    factors,          \* the factor list (key sets)
    var_sizes,        \* key -> size
    edges,            \* find_triangulation: the undirected graph (dict keys)
    heap,             \* find_triangulation: bag of entries <<new edges, weight, var>>
    entry_finder,     \* find_triangulation: var -> its live entry
    rem_vars,         \* find_triangulation: keys not yet eliminated
    tri,              \* find_triangulation: fill-in edges, per elimination
    induced_clusters, \* find_triangulation: clusters in elimination order
    cliques,          \* identify_cliques: list of maximal clusters
    forest,           \* construct_junction_tree: list of trees
    sepsets,          \* construct_junction_tree: candidates <<keys, <<i, j>>>>
    sheap,            \* construct_junction_tree: heap of <<mass, weight, i>>
    num_selected,     \* construct_junction_tree: separators inserted
    popped,           \* construct_junction_tree: the last popped candidate and its outcome
    jt,               \* the JunctionTree object (structure) and the run's inputs
    phi,              \* the caller's potential table, node id -> tensor
    work,             \* the table propagate works on (new_potentials)
    sched,            \* messages of hugin still to pass
    call,             \* the arguments and the position of the running propagate
    query,            \* the last call of marginalize and its outcome
    law_call,         \* the arguments and the result of a call of SumProduct.absorb
    root_call,        \* the arguments and the result of a call of change_root
    hist              \* record of the calls made on the potentials

buildVars == <<factors, var_sizes, edges, heap, entry_finder, rem_vars, tri,
               induced_clusters, cliques, forest, sepsets, sheap, num_selected, popped>>
propVars == <<jt, phi, work, sched, call, query, law_call, root_call, hist>>
vars == <<pc, buildVars, propVars>>

----------------------------------------------------------------------------
(* Bounds of the model *)

\* number of keys (letters A, B, ...)
NumKeys == 5
\* number of factors of the factor graph handed to find_triangulation
MaxFactors == 4

Keys == 1..NumKeys

\* prev[2] = "" of update_heap: the empty string sorts before every letter
Stale == 0

----------------------------------------------------------------------------
(* Generic helpers *)

Min(S) == CHOOSE x \in S : \A y \in S : x <= y

Range(s) == {s[i] : i \in DOMAIN s}

RECURSIVE Prod(_, _)
\* np.prod([sizes[n] for n in S])
Prod(S, sizes) ==
    IF S = {} THEN 1
    ELSE LET x == Min(S) IN sizes[x] * Prod(S \ {x}, sizes)

\* lexicographic order of Python lists of three numbers
Less3(a, b) ==
    \/ a[1] < b[1]
    \/ a[1] = b[1] /\ a[2] < b[2]
    \/ a[1] = b[1] /\ a[2] = b[2] /\ a[3] < b[3]

RECURSIVE Reach(_, _)
\* vertices reachable from the set R along the edges E (two-element sets)
Reach(R, E) ==
    LET N == R \cup {v \in UNION E : \E e \in E : v \in e /\ e \cap R # {}}
    IN IF N = R THEN R ELSE Reach(N, E)

\* the vertex set S is connected by the edges of E that lie inside S
Connected(S, E) ==
    \/ S = {}
    \/ LET inner == {e \in E : e \subseteq S}
       IN Reach({Min(S)}, inner) \cap S = S

----------------------------------------------------------------------------
(* bp.py: triangulation *)

factors_to_undirected_graph(fs) ==
    UNION {{e \in SUBSET f : Cardinality(e) = 2} : f \in fs}

\* mutant: every neighbour of var counts, eliminated or not
rem_neighbors_any(var, es, rem, n) ==
    {v \in UNION es : v # var /\ {var, v} \in es}

\* the list comprehension of update_heap (n = 2) and find_triangulation (n = 1):
\* the other ends of the edges at var with n ends among the remaining keys
rem_neighbors(var, es, rem, n) ==
    {v \in UNION es : v # var /\ {var, v} \in es /\ Cardinality(rem \cap {var, v}) = n}

\* update_heap: pairs of remaining neighbours that are not connected
num_new_edges(nbrs, es) ==
    Cardinality({e \in SUBSET nbrs : Cardinality(e) = 2 /\ e \notin es})

\* update_heap: entry = [num_new_edges, weight, var]
heap_entry(var, rem, es, sizes) ==
    LET nbrs == rem_neighbors(var, es, rem, 2)
    IN <<num_new_edges(nbrs, es), sizes[var] * Prod(nbrs, sizes), var>>

RECURSIVE update_heap_loop(_, _, _, _, _, _)
update_heap_loop(todo, rem, es, sizes, h, ef) ==
    IF todo = {} THEN <<h, ef>>
    ELSE LET var == Min(todo)
             entry == heap_entry(var, rem, es, sizes)
             h1 == h (+) SetToBag({entry})
             \* invalidate the previous entry: prev[2] = ""
             h2 == IF var \in DOMAIN ef
                   THEN (h1 (-) SetToBag({ef[var]}))
                            (+) SetToBag({<<ef[var][1], ef[var][2], Stale>>})
                   ELSE h1
             ef2 == [x \in DOMAIN ef \cup {var} |-> IF x = var THEN entry ELSE ef[x]]
         IN update_heap_loop(todo \ {var}, rem, es, sizes, h2, ef2)

update_heap(rem, es, sizes, h, ef) == update_heap_loop(rem, rem, es, sizes, h, ef)

initialize_triangulation_heap(sizes, es) ==
    update_heap(DOMAIN sizes, es, sizes, EmptyBag, <<>>)

\* heapq.heappop: the least entry of the heap
heappop(h) == CHOOSE e \in BagToSet(h) : \A o \in BagToSet(h) : e = o \/ Less3(e, o)

RECURSIVE pop_valid(_)
\* the while loop of remove_next: pop until an entry is not invalidated
pop_valid(h) ==
    LET e == heappop(h)
        rest == h (-) SetToBag({e})
    IN IF e[3] = Stale THEN pop_valid(rest) ELSE <<e, rest>>

\* remove_next: <<entry, heap, entry_finder, remaining_vars>>
remove_next(h, ef, rem, sizes, es) ==
    LET p == pop_valid(h)
        entry == p[1]
        ef1 == [x \in DOMAIN ef \ {entry[3]} |-> ef[x]]
        rem1 == rem \ {entry[3]}
        u == update_heap(rem1, es, sizes, p[2], ef1)
    IN <<entry, u[1], u[2], rem1>>

\* mutant: the unconnected neighbours of the eliminated key are left unconnected
fill_in_skipped(nbrs, es) == {}

\* find_triangulation: the fill-in edges of one elimination
fill_in(nbrs, es) == {e \in SUBSET nbrs : Cardinality(e) = 2 /\ e \notin es}

\* the body of the while loop of find_triangulation, on the record of its locals
find_triangulation_body(st, sizes) ==
    LET r == remove_next(st.heap, st.entry_finder, st.rem_vars, sizes, st.edges)
        var == r[1][3]
        nbrs == rem_neighbors(var, st.edges, r[4], 1)
        new == fill_in(nbrs, st.edges)
    IN [heap |-> r[2],
        entry_finder |-> r[3],
        rem_vars |-> r[4],
        induced_clusters |-> Append(st.induced_clusters, nbrs \cup {var}),
        edges |-> st.edges \cup new,
        tri |-> Append(st.tri, new)]

\* the locals of find_triangulation when the while loop is entered
find_triangulation_start(fs, sizes) ==
    LET es == factors_to_undirected_graph(fs)
        he == initialize_triangulation_heap(sizes, es)
    IN [heap |-> he[1],
        entry_finder |-> he[2],
        rem_vars |-> DOMAIN sizes,
        induced_clusters |-> <<>>,
        edges |-> es,
        tri |-> <<>>]

RECURSIVE find_triangulation_loop(_, _)
find_triangulation_loop(st, sizes) ==
    IF Cardinality(st.rem_vars) > 0
    THEN find_triangulation_loop(find_triangulation_body(st, sizes), sizes)
    ELSE st

\* find_triangulation: <<tri, induced_clusters>>
find_triangulation(fs, sizes) ==
    LET st == find_triangulation_loop(find_triangulation_start(fs, sizes), sizes)
    IN <<st.tri, st.induced_clusters>>

----------------------------------------------------------------------------
(* bp.py: cliques *)

RECURSIVE identify_cliques_from(_, _)
identify_cliques_from(i, sets) ==
    IF i > Len(sets) THEN <<>>
    ELSE (IF \E j \in DOMAIN sets : sets[i] \subseteq sets[j] /\ sets[i] # sets[j]
          THEN <<>> ELSE <<sets[i]>>) \o identify_cliques_from(i + 1, sets)

identify_cliques(clusters) == identify_cliques_from(1, clusters)

----------------------------------------------------------------------------
(* bp.py: trees *)

RECURSIVE find_subtree(_, _), find_subtree_sum(_, _, _)
\* ([] if tree[0] != clique_ix else tree) + sum([find_subtree(c, ..) for c in tree[2:]], [])
\* the elements of tree[2:] are the (sep_ix, sep_keys, child) tuples, whose own [2:]
\* holds the child tree
find_subtree(tree, clique_ix) ==
    (IF tree[1] # clique_ix THEN <<>> ELSE tree) \o find_subtree_sum(tree, clique_ix, 3)

find_subtree_sum(tree, clique_ix, i) ==
    IF i > Len(tree) THEN <<>>
    ELSE find_subtree(tree[i], clique_ix) \o find_subtree_sum(tree, clique_ix, i + 1)

RECURSIVE insert_sepset(_, _, _), insert_sepset_sum(_, _, _, _)
insert_sepset(tree, clique_ix, sepset_group) ==
    <<tree[1], tree[2]>>
        \o (IF tree[1] # clique_ix THEN <<>> ELSE <<sepset_group>>)
        \o insert_sepset_sum(tree, clique_ix, sepset_group, 3)

insert_sepset_sum(tree, clique_ix, sepset_group, i) ==
    IF i > Len(tree) THEN <<>>
    ELSE <<<<tree[i][1], tree[i][2], insert_sepset(tree[i][3], clique_ix, sepset_group)>>>>
             \o insert_sepset_sum(tree, clique_ix, sepset_group, i + 1)

\* mutant: the child on the way to the new root stays in the list of its parent
without_child_kept(tree, i) == tree

\* tree[:c_ix+2] + tree[c_ix+3:] with i = c_ix + 3 the 1-based place of the child
without_child(tree, i) == SubSeq(tree, 1, i - 1) \o SubSeq(tree, i + 1, Len(tree))

\* mutant: the tree is handed back under its old root
change_root_not_rerooted(tree, clique_ix, child, sep) == tree

RECURSIVE change_root(_, _, _, _), change_root_sum(_, _, _, _, _)
change_root(tree, clique_ix, child, sep) ==
    IF tree[1] = clique_ix
    THEN IF Len(child) > 0 THEN Append(tree, <<sep[1], sep[2], child>>) ELSE tree
    ELSE change_root_sum(tree, clique_ix, child, sep, 3)

change_root_sum(tree, clique_ix, child, sep, i) ==
    IF i > Len(tree) THEN <<>>
    ELSE change_root(tree[i][3],
                     clique_ix,
                     IF Len(child) > 0
                     THEN Append(without_child(tree, i), <<sep[1], sep[2], child>>)
                     ELSE without_child(tree, i),
                     <<tree[i][1], tree[i][2]>>)
             \o change_root_sum(tree, clique_ix, child, sep, i + 1)

merge_trees(tree1, clique1_ix, tree2, clique2_ix, sepset_ix, sepset) ==
    LET sepset_group == <<sepset_ix, sepset, change_root(tree2, clique2_ix, <<>>, <<>>)>>
    IN insert_sepset(tree1, clique1_ix, sepset_group)

----------------------------------------------------------------------------
(* bp.py: construct_junction_tree *)

\* forest = [[c_ix, clique] for c_ix, clique in enumerate(cliques)]
initial_forest(cl) == [i \in 1..Len(cl) |-> <<i - 1, cl[i]>>]

RECURSIVE candidate_sepsets(_, _, _)
\* the double loop over i < j, in that order; clique ids count from 0
candidate_sepsets(cl, i, j) ==
    IF i > Len(cl) THEN <<>>
    ELSE IF j > Len(cl) THEN candidate_sepsets(cl, i + 1, i + 2)
    ELSE (IF cl[i] \cap cl[j] # {}
          THEN <<<<cl[i] \cap cl[j], <<i - 1, j - 1>>>>>>
          ELSE <<>>) \o candidate_sepsets(cl, i, j + 1)

\* mutant: the mass is not inverted, so the min-heap prefers small intersections
build_sepset_heap_not_inverted(ss, cl, sizes) ==
    {<<<<Cardinality(ss[i][1]), 1>>,
       Prod(cl[ss[i][2][1] + 1], sizes) + Prod(cl[ss[i][2][2] + 1], sizes),
       i - 1>> : i \in DOMAIN ss}

\* mutant: the weights of the two cliques are left out of the entry
build_sepset_heap_unweighted(ss, cl, sizes) ==
    {<<<<1, Cardinality(ss[i][1])>>, 0, i - 1>> : i \in DOMAIN ss}

\* entry = [1.0/mass, weight1 + weight2, i]; the quotient 1.0/mass is kept exact,
\* as the pair <<1, mass>>
build_sepset_heap(ss, cl, sizes) ==
    {<<<<1, Cardinality(ss[i][1])>>,
       Prod(cl[ss[i][2][1] + 1], sizes) + Prod(cl[ss[i][2][2] + 1], sizes),
       i - 1>> : i \in DOMAIN ss}

\* order of two quotients <<numerator, denominator>> with positive denominators
FracLess(p, q) == p[1] * q[2] < q[1] * p[2]

\* list order of the sepset heap entries
SepLess(a, b) ==
    \/ FracLess(a[1], b[1])
    \/ a[1] = b[1] /\ a[2] < b[2]
    \/ a[1] = b[1] /\ a[2] = b[2] /\ a[3] < b[3]

sep_heappop(h) == CHOOSE e \in h : \A o \in h : e = o \/ SepLess(e, o)

\* mutant: the id does not advance with the separators inserted
sepset_ix_not_advanced(cl, n) == Len(cl)

\* the id of the next separator: len(cliques) + num_selected
sepset_ix(cl, n) == Len(cl) + n

\* the for loop that finds tree1 / tree2: the first tree of the forest holding the clique
tree_of(fr, clique_ix) ==
    fr[Min({i \in DOMAIN fr : find_subtree(fr[i], clique_ix) # <<>>})]

\* mutant: the element is left in the list
list_remove_kept(s, x) == s

\* list.remove: drop the first element equal to x
list_remove(s, x) ==
    LET i == Min({k \in DOMAIN s : s[k] = x})
    IN SubSeq(s, 1, i - 1) \o SubSeq(s, i + 1, Len(s))

\* the locals of construct_junction_tree when the while loop is entered
construct_junction_tree_start(cl, sizes) ==
    LET ss == candidate_sepsets(cl, 1, 2)
    IN [forest |-> initial_forest(cl),
        sepsets |-> ss,
        sheap |-> build_sepset_heap(ss, cl, sizes),
        num_selected |-> 0,
        popped |-> <<>>]

\* the body of the while loop of construct_junction_tree (the heap is not empty)
construct_junction_tree_body(st, cl) ==
    LET entry == sep_heappop(st.sheap)
        ss_id == entry[3]
        cliq1_ix == st.sepsets[ss_id + 1][2][1]
        cliq2_ix == st.sepsets[ss_id + 1][2][2]
        tree1 == tree_of(st.forest, cliq1_ix)
        tree2 == tree_of(st.forest, cliq2_ix)
        new_tree == merge_trees(tree1, cliq1_ix, tree2, cliq2_ix,
                                sepset_ix(cl, st.num_selected), st.sepsets[ss_id + 1][1])
    IN IF tree1 # tree2
       THEN [forest |-> list_remove(list_remove(Append(st.forest, new_tree), tree1), tree2),
             sepsets |-> st.sepsets,
             sheap |-> st.sheap \ {entry},
             num_selected |-> st.num_selected + 1,
             popped |-> <<cliq1_ix, cliq2_ix, "merged", tree2[1]>>]
       ELSE [forest |-> st.forest,
             sepsets |-> st.sepsets,
             sheap |-> st.sheap \ {entry},
             num_selected |-> st.num_selected,
             popped |-> <<cliq1_ix, cliq2_ix, "discarded", tree2[1]>>]

RECURSIVE construct_junction_tree_loop(_, _)
\* the while loop: the forest, or IndexError from heappop on the empty heap
construct_junction_tree_loop(st, cl) ==
    IF st.num_selected < Len(cl) - 1
    THEN IF st.sheap = {}
         THEN [raised |-> "IndexError", forest |-> <<>>]
         ELSE construct_junction_tree_loop(construct_junction_tree_body(st, cl), cl)
    ELSE [raised |-> "", forest |-> st.forest]

construct_junction_tree(cl, sizes) ==
    construct_junction_tree_loop(construct_junction_tree_start(cl, sizes), cl)

----------------------------------------------------------------------------
(* Inputs of the build *)

RECURSIVE SubsetsUpTo(_, _)
\* the subsets of S with at most n elements
SubsetsUpTo(S, n) ==
    IF n = 0 THEN {{}}
    ELSE LET smaller == SubsetsUpTo(S, n - 1)
         IN smaller \cup {T \cup {x} : T \in smaller, x \in S}

Max(S) == CHOOSE x \in S : \A y \in S : y <= x

\* the factors of the build: two or three keys that lie at most two letters apart
\* (a factor on one key adds no edge in factors_to_undirected_graph)
FactorChoices ==
    {f \in SUBSET Keys : Cardinality(f) \in {2, 3} /\ Max(f) - Min(f) <= 2}

FactorLists == SubsetsUpTo(FactorChoices, MaxFactors)

\* the size map: every key binary, or one key (the second, the last) of size three
SizeMaps == {[k \in Keys |-> IF k = big THEN 3 ELSE 2] : big \in {0, 2, NumKeys}}

NoPropagation ==
    /\ jt = <<>>
    /\ phi = <<>>
    /\ work = <<>>
    /\ sched = <<>>
    /\ call = <<>>
    /\ query = <<>>
    /\ law_call = <<>>
    /\ root_call = <<>>
    /\ hist = <<>>

\* the locals of find_triangulation and of construct_junction_tree held in the state
tri_locals ==
    [heap |-> heap, entry_finder |-> entry_finder, rem_vars |-> rem_vars,
     induced_clusters |-> induced_clusters, edges |-> edges, tri |-> tri]

construct_locals ==
    [forest |-> forest, sepsets |-> sepsets, sheap |-> sheap,
     num_selected |-> num_selected, popped |-> popped]

\* find_triangulation up to the while loop
InitBuild ==
    /\ pc = "find_triangulation"
    /\ factors \in FactorLists
    /\ var_sizes \in SizeMaps
    /\ \E st \in {find_triangulation_start(factors, var_sizes)} :
          /\ edges = st.edges
          /\ heap = st.heap
          /\ entry_finder = st.entry_finder
          /\ rem_vars = st.rem_vars
          /\ tri = st.tri
          /\ induced_clusters = st.induced_clusters
    /\ cliques = <<>>
    /\ forest = <<>>
    /\ sepsets = <<>>
    /\ sheap = {}
    /\ num_selected = 0
    /\ popped = <<>>
    /\ NoPropagation

----------------------------------------------------------------------------
(* Steps of the build: JunctionTree.from_factor_graph *)

\* one iteration of the while loop of find_triangulation
find_triangulation_step ==
    /\ pc = "find_triangulation"
    /\ Cardinality(rem_vars) > 0
    /\ \E st \in {find_triangulation_body(tri_locals, var_sizes)} :
          /\ heap' = st.heap
          /\ entry_finder' = st.entry_finder
          /\ rem_vars' = st.rem_vars
          /\ induced_clusters' = st.induced_clusters
          /\ edges' = st.edges
          /\ tri' = st.tri
    /\ UNCHANGED <<pc, factors, var_sizes, cliques, forest, sepsets, sheap,
                   num_selected, popped, propVars>>

\* find_triangulation returns; identify_cliques
identify_cliques_call ==
    /\ pc = "find_triangulation"
    /\ Cardinality(rem_vars) = 0
    /\ cliques' = identify_cliques(induced_clusters)
    /\ pc' = "construct_junction_tree"
    /\ UNCHANGED <<factors, var_sizes, edges, heap, entry_finder, rem_vars, tri,
                   induced_clusters, forest, sepsets, sheap, num_selected, popped,
                   propVars>>

\* construct_junction_tree up to the while loop
construct_start ==
    /\ pc = "construct_junction_tree"
    /\ \E st \in {construct_junction_tree_start(cliques, var_sizes)} :
          /\ forest' = st.forest
          /\ sepsets' = st.sepsets
          /\ sheap' = st.sheap
          /\ num_selected' = st.num_selected
          /\ popped' = st.popped
    /\ pc' = "select"
    /\ UNCHANGED <<factors, var_sizes, edges, heap, entry_finder, rem_vars, tri,
                   induced_clusters, cliques, propVars>>

\* one iteration of the while loop: the popped candidate joins two trees
construct_merge ==
    /\ pc = "select"
    /\ num_selected < Len(cliques) - 1
    /\ sheap # {}
    /\ \E st \in {construct_junction_tree_body(construct_locals, cliques)} :
          /\ st.popped[3] = "merged"
          /\ forest' = st.forest
          /\ sheap' = st.sheap
          /\ num_selected' = st.num_selected
          /\ popped' = st.popped
    /\ UNCHANGED <<pc, factors, var_sizes, edges, heap, entry_finder, rem_vars, tri,
                   induced_clusters, cliques, sepsets, propVars>>

\* one iteration of the while loop: both cliques are in one tree already
construct_discard ==
    /\ pc = "select"
    /\ num_selected < Len(cliques) - 1
    /\ sheap # {}
    /\ \E st \in {construct_junction_tree_body(construct_locals, cliques)} :
          /\ st.popped[3] = "discarded"
          /\ forest' = st.forest
          /\ sheap' = st.sheap
          /\ num_selected' = st.num_selected
          /\ popped' = st.popped
    /\ UNCHANGED <<pc, factors, var_sizes, edges, heap, entry_finder, rem_vars, tri,
                   induced_clusters, cliques, sepsets, propVars>>

\* heapq.heappop on the empty heap raises IndexError
construct_raise ==
    /\ pc = "select"
    /\ num_selected < Len(cliques) - 1
    /\ sheap = {}
    /\ pc' = "IndexError"
    /\ UNCHANGED <<buildVars, propVars>>

\* the while loop ends: return forest
construct_return ==
    /\ pc = "select"
    /\ ~(num_selected < Len(cliques) - 1)
    /\ pc' = "built"
    /\ UNCHANGED <<buildVars, propVars>>

NextBuild ==
    \/ find_triangulation_step
    \/ identify_cliques_call
    \/ construct_start
    \/ construct_merge
    \/ construct_discard
    \/ construct_raise
    \/ construct_return

SpecBuild == InitBuild /\ [][NextBuild]_vars

----------------------------------------------------------------------------
(* The build on factors that name a key the size map does not have *)

\* the factor lists of the build with one more factor, on the last key and the
\* letter after it, which the size map does not have
FactorListsUnknown == {fl \cup {{NumKeys, NumKeys + 1}} : fl \in FactorLists}

\* find_triangulation up to the while loop, on such a list and map
InitBuildUnknown ==
    /\ pc = "find_triangulation"
    /\ factors \in FactorListsUnknown
    /\ var_sizes \in SizeMaps
    /\ \E st \in {find_triangulation_start(factors, var_sizes)} :
          /\ edges = st.edges
          /\ heap = st.heap
          /\ entry_finder = st.entry_finder
          /\ rem_vars = st.rem_vars
          /\ tri = st.tri
          /\ induced_clusters = st.induced_clusters
    /\ cliques = <<>>
    /\ forest = <<>>
    /\ sepsets = <<>>
    /\ sheap = {}
    /\ num_selected = 0
    /\ popped = <<>>
    /\ NoPropagation

SpecBuildUnknown == InitBuildUnknown /\ [][NextBuild]_vars

----------------------------------------------------------------------------
(* find_triangulation on graphs with two hubs *)

\* the factor lists whose factors each join the first or the last key with one of
\* the keys between them
FactorListsHubs ==
    SUBSET {{h, m} : h \in {1, NumKeys}, m \in 2..(NumKeys - 1)} \ {{}}

\* find_triangulation up to the while loop, on such a list
InitTriangulation ==
    /\ pc = "find_triangulation"
    /\ factors \in FactorListsHubs
    /\ var_sizes \in SizeMaps
    /\ \E st \in {find_triangulation_start(factors, var_sizes)} :
          /\ edges = st.edges
          /\ heap = st.heap
          /\ entry_finder = st.entry_finder
          /\ rem_vars = st.rem_vars
          /\ tri = st.tri
          /\ induced_clusters = st.induced_clusters
    /\ cliques = <<>>
    /\ forest = <<>>
    /\ sepsets = <<>>
    /\ sheap = {}
    /\ num_selected = 0
    /\ popped = <<>>
    /\ NoPropagation

NextTriangulation == find_triangulation_step

SpecTriangulation == InitTriangulation /\ [][NextTriangulation]_vars

----------------------------------------------------------------------------
(* identify_cliques called on a list of clusters of the caller's choice *)

\* the longest cluster list handed to identify_cliques
MaxClusters == 3

RECURSIVE SeqsUpTo(_, _)
\* the sequences over S of length 1..n
SeqsUpTo(S, n) ==
    IF n = 0 THEN {}
    ELSE LET shorter == SeqsUpTo(S, n - 1)
         IN {<<x>> : x \in S} \cup {Append(q, x) : q \in shorter, x \in S}

\* clusters over three keys, none empty
ClusterLists == SeqsUpTo(SUBSET {1, 2, 3} \ {{}}, MaxClusters)

InitCliques ==
    /\ pc = "identify_cliques"
    /\ induced_clusters \in ClusterLists
    /\ factors = {}
    /\ var_sizes = <<>>
    /\ edges = {}
    /\ heap = EmptyBag
    /\ entry_finder = <<>>
    /\ rem_vars = {}
    /\ tri = <<>>
    /\ cliques = <<>>
    /\ forest = <<>>
    /\ sepsets = <<>>
    /\ sheap = {}
    /\ num_selected = 0
    /\ popped = <<>>
    /\ NoPropagation

\* cliques = identify_cliques(induced_clusters)
identify_cliques_direct ==
    /\ pc = "identify_cliques"
    /\ cliques' = identify_cliques(induced_clusters)
    /\ pc' = "cliques"
    /\ UNCHANGED <<factors, var_sizes, edges, heap, entry_finder, rem_vars, tri,
                   induced_clusters, forest, sepsets, sheap, num_selected, popped,
                   propVars>>

NextCliques == identify_cliques_direct

SpecCliques == InitCliques /\ [][NextCliques]_vars

----------------------------------------------------------------------------
(* Table entries.  A value is the fraction <<n, d>> in lowest terms, d > 0: *)
(* the arithmetic of the arrays without rounding.                           *)

Abs(n) == IF n < 0 THEN -n ELSE n

RECURSIVE GCD(_, _)
GCD(a, b) == IF b = 0 THEN a ELSE GCD(b, a % b)

\* n / d in lowest terms (d # 0)
Frac(n, d) ==
    LET s == IF d < 0 THEN -1 ELSE 1
        g == GCD(Abs(n), Abs(d))
    IN <<(s * n) \div g, (s * d) \div g>>

Zero == <<0, 1>>
One == <<1, 1>>

RAdd(p, q) == Frac(p[1] * q[2] + q[1] * p[2], p[2] * q[2])
RMul(p, q) == Frac(p[1] * q[1], p[2] * q[2])
RDiv(p, q) == Frac(p[1] * q[2], p[2] * q[1])

RECURSIVE SumOver(_, _)
\* the sum of f over the set S
SumOver(S, f) ==
    IF S = {} THEN Zero
    ELSE LET x == CHOOSE y \in S : TRUE
         IN RAdd(f[x], SumOver(S \ {x}, f))

RECURSIVE ProdOver(_, _)
\* the product of f over the set S
ProdOver(S, f) ==
    IF S = {} THEN One
    ELSE LET x == CHOOSE y \in S : TRUE
         IN RMul(f[x], ProdOver(S \ {x}, f))

----------------------------------------------------------------------------
(* Arrays.  An array with one axis per key is a function from the          *)
(* assignments of its keys (key -> state) to values; a 0-d array is the     *)
(* function on the one empty assignment.                                    *)

\* the index tuples of an array whose axes are keys, sz[k] states on axis k
Assign(keys, sz) == {a \in [keys -> 0..(Max({sz[k] : k \in keys} \cup {1}) - 1)] :
                        \A k \in keys : a[k] < sz[k]}

Restrict(a, keys) == [k \in keys |-> a[k]]

\* np.ones(shape)
ones(keys, sz) == [a \in Assign(keys, sz) |-> One]

\* np.einsum(x, x_keys, y, y_keys, x_keys): x times y broadcast along the axes of x
einsum_mul(x, y, y_keys) == [a \in DOMAIN x |-> RMul(x[a], y[Restrict(a, y_keys)])]

\* SumProduct.project: einsum(clique_pot, clique_vars, sep_vars)
project(clique_pot, sep_vars) ==
    [b \in {Restrict(a, sep_vars) : a \in DOMAIN clique_pot} |->
        SumOver({a \in DOMAIN clique_pot : Restrict(a, sep_vars) = b}, clique_pot)]

\* mutant: where the guard holds the clique potential is returned as it is
absorb_kept(clique_pot, sep_pot, new_sep_pot, sep_vars) ==
    IF ~(\A s \in DOMAIN sep_pot : sep_pot[s] # Zero)
    THEN clique_pot
    ELSE [a \in DOMAIN clique_pot |->
             RMul(RDiv(new_sep_pot[Restrict(a, sep_vars)], sep_pot[Restrict(a, sep_vars)]),
                  clique_pot[a])]

\* np.all(sep_pot) == 0: some entry of the array is zero
absorb_guard(sep_pot) == ~(\A s \in DOMAIN sep_pot : sep_pot[s] # Zero)

\* SumProduct.absorb
absorb(clique_pot, sep_pot, new_sep_pot, sep_vars) ==
    IF absorb_guard(sep_pot)
    THEN [a \in DOMAIN clique_pot |-> Zero]
    ELSE [a \in DOMAIN clique_pot |->
             RMul(RDiv(new_sep_pot[Restrict(a, sep_vars)], sep_pot[Restrict(a, sep_vars)]),
                  clique_pot[a])]

\* SumProduct.update: <<new_clique_2_pot, new_sep_pot>>
update(clique_1_pot, clique_2_pot, sep_pot, sep_vars) ==
    LET new_sep_pot == project(clique_1_pot, sep_vars)
    IN <<absorb(clique_2_pot, sep_pot, new_sep_pot, sep_vars), new_sep_pot>>

----------------------------------------------------------------------------
(* bp.py: the message order of hugin *)

\* the update collect makes for one neighbor: the child's message to the clique
collect_msg(tree, i) ==
    [phase |-> "collect", src |-> tree[i][3][1], dst |-> tree[1],
     sep |-> tree[i][1], sep_vars |-> tree[i][2]]

\* the update distribute makes for one neighbor: the clique's message to the child
distribute_msg(tree, i) ==
    [phase |-> "distribute", src |-> tree[1], dst |-> tree[i][3][1],
     sep |-> tree[i][1], sep_vars |-> tree[i][2]]

RECURSIVE collect(_, _), collect_loop(_, _, _, _)
\* collect: the updates it makes, in order, and the visited marks it leaves
collect(tree, visited) == collect_loop(tree, 3, visited \cup {tree[1]}, <<>>)

\* mutant: the update for a neighbor is made before collect is called on it
collect_loop_update_first(tree, i, visited, msgs) ==
    IF i > Len(tree) THEN [msgs |-> msgs, visited |-> visited]
    ELSE IF tree[i][3][1] \notin visited
         THEN LET r == collect(tree[i][3], visited)
              IN collect_loop(tree, i + 1, r.visited,
                              msgs \o <<collect_msg(tree, i)>> \o r.msgs)
         ELSE collect_loop(tree, i + 1, visited, msgs)

collect_loop(tree, i, visited, msgs) ==
    IF i > Len(tree) THEN [msgs |-> msgs, visited |-> visited]
    ELSE IF tree[i][3][1] \notin visited
         THEN LET r == collect(tree[i][3], visited)
              IN collect_loop(tree, i + 1, r.visited,
                              msgs \o r.msgs \o <<collect_msg(tree, i)>>)
         ELSE collect_loop(tree, i + 1, visited, msgs)

RECURSIVE distribute(_, _), distribute_loop(_, _, _, _)
\* distribute: the updates it makes, in order, and the visited marks it leaves
distribute(tree, visited) == distribute_loop(tree, 3, visited \cup {tree[1]}, <<>>)

distribute_loop(tree, i, visited, msgs) ==
    IF i > Len(tree) THEN [msgs |-> msgs, visited |-> visited]
    ELSE IF tree[i][3][1] \notin visited
         THEN LET r == distribute(tree[i][3], visited)
              IN distribute_loop(tree, i + 1, r.visited,
                                 msgs \o <<distribute_msg(tree, i)>> \o r.msgs)
         ELSE distribute_loop(tree, i + 1, visited, msgs)

\* mutant: distribute on the root, then collect on the root
hugin_distribute_first(tree) == distribute(tree, {}).msgs \o collect(tree, {}).msgs

\* hugin: collect on the root, then distribute on the root, each with fresh marks
hugin(tree) == collect(tree, {}).msgs \o distribute(tree, {}).msgs

\* one update of collect or distribute on the table
pass_message(potentials, m) ==
    LET u == update(potentials[m.src], potentials[m.dst], potentials[m.sep], m.sep_vars)
    IN [potentials EXCEPT ![m.dst] = u[1], ![m.sep] = u[2]]

RECURSIVE pass_messages(_, _)
\* the table after the updates msgs were made in order
pass_messages(potentials, msgs) ==
    IF msgs = <<>> THEN potentials
    ELSE pass_messages(pass_message(potentials, Head(msgs)), Tail(msgs))

RECURSIVE hugin_trees(_, _)
\* propagate: the loop that calls hugin for the trees of struct in their order
hugin_trees(potentials, struct) ==
    IF struct = <<>> THEN potentials
    ELSE hugin_trees(pass_messages(potentials, hugin(Head(struct))), Tail(struct))

----------------------------------------------------------------------------
(* junction_tree.py: the JunctionTree object *)

\* None of Python, where a clique id is expected
None == -1

\* self.labels: key label -> index in the sorted labels
labels_of(key_sizes) ==
    [k \in DOMAIN key_sizes |-> Cardinality({j \in DOMAIN key_sizes : j < k})]

\* _get_labels: the labels in sorted order
sorted_labels_of(key_sizes) ==
    [i \in 1..Cardinality(DOMAIN key_sizes) |->
        CHOOSE k \in DOMAIN key_sizes : labels_of(key_sizes)[k] = i - 1]

RECURSIVE map_keys(_, _)
\* map_keys: the tree with every key label replaced by its index
map_keys(tree, lookup) ==
    [i \in 1..Len(tree) |->
        IF i = 1 THEN tree[1]
        ELSE IF i = 2 THEN {lookup[k] : k \in tree[2]}
        ELSE <<tree[i][1], {lookup[k] : k \in tree[i][2]}, map_keys(tree[i][3], lookup)>>]

RECURSIVE df_traverse(_), df_traverse_loop(_, _)
\* df_traverse: <<id, keys>> of the clique, then per child its separator and subtree
df_traverse(tree) == <<<<tree[1], tree[2]>>>> \o df_traverse_loop(tree, 3)

df_traverse_loop(tree, i) ==
    IF i > Len(tree) THEN <<>>
    ELSE <<<<tree[i][1], tree[i][2]>>>> \o df_traverse(tree[i][3])
            \o df_traverse_loop(tree, i + 1)

RECURSIVE df_traverse_forest(_, _)
df_traverse_forest(struct, t) ==
    IF t > Len(struct) THEN <<>>
    ELSE df_traverse(struct[t]) \o df_traverse_forest(struct, t + 1)

RECURSIVE ids_with_key(_, _, _)
\* self.keys_to_cliques[key]: the ids of the nodes that hold the key, in traversal order
ids_with_key(nodes, key, i) ==
    IF i > Len(nodes) THEN <<>>
    ELSE (IF key \in nodes[i][2] THEN <<nodes[i][1]>> ELSE <<>>)
            \o ids_with_key(nodes, key, i + 1)

\* JunctionTree.__init__
JunctionTree(key_sizes, trees) ==
    LET lookup == labels_of(key_sizes)
        struct == [t \in 1..Len(trees) |-> map_keys(trees[t], lookup)]
        nodes == df_traverse_forest(struct, 1)
    IN [key_sizes |-> key_sizes,
        labels |-> lookup,
        sorted_labels |-> sorted_labels_of(key_sizes),
        struct |-> struct,
        nodes |-> nodes,
        clique_keys |-> [ix \in {n[1] : n \in Range(nodes)} |->
                            nodes[Max({i \in DOMAIN nodes : nodes[i][1] = ix})][2]],
        keys_to_cliques |-> [key \in UNION {n[2] : n \in Range(nodes)} |->
                                ids_with_key(nodes, key, 1)]]

\* the size of the axis of key index ix: key_sizes[labels[ix]]
axis_sizes(tree) ==
    [ix \in 0..(Len(tree.sorted_labels) - 1) |-> tree.key_sizes[tree.sorted_labels[ix + 1]]]

\* mutant: the lookup starts after the first entry
factor_clique_after_first(tree, factor_keys) ==
    LET hits == {i \in DOMAIN tree.nodes \ {1} :
                    factor_keys \subseteq tree.clique_keys[tree.nodes[i][1]]}
    IN IF hits = {} THEN 0 ELSE Min(hits)

\* init_potentials: the clique a factor is multiplied into, the first in the order
\* of the clique lookup whose keys hold the factor's keys; 0 when there is none
factor_clique(tree, factor_keys) ==
    LET hits == {i \in DOMAIN tree.nodes : factor_keys \subseteq tree.clique_keys[tree.nodes[i][1]]}
    IN IF hits = {} THEN 0 ELSE Min(hits)

RECURSIVE init_potentials_loop(_, _, _, _, _)
\* init_potentials: the loop over the factors
init_potentials_loop(tree, fs, values, i, potentials) ==
    IF i > Len(fs) THEN potentials
    ELSE LET factor_keys == {tree.labels[k] : k \in fs[i]}
             hit == factor_clique(tree, factor_keys)
             clique_ix == tree.nodes[hit][1]
         IN IF hit = 0
            THEN init_potentials_loop(tree, fs, values, i + 1, potentials)
            ELSE init_potentials_loop(tree, fs, values, i + 1,
                    [potentials EXCEPT ![clique_ix] =
                        einsum_mul(potentials[clique_ix], values[i], factor_keys)])

\* JunctionTree.init_potentials
init_potentials(tree, fs, values) ==
    init_potentials_loop(tree, fs, values, 1,
        [ix \in DOMAIN tree.clique_keys |-> ones(tree.clique_keys[ix], axis_sizes(tree))])

\* JunctionTree.from_factor_graph: the trees, or the error the build raises
from_factor_graph_trees(key_sizes, fs) ==
    LET tc == find_triangulation(Range(fs), key_sizes)
    IN construct_junction_tree(identify_cliques(tc[2]), key_sizes)

RECURSIVE get_clique_of_var(_, _), get_clique_of_var_loop(_, _, _)
\* bp.get_clique_of_var (junction_tree.py calls it get_clique_of_key): <<ix, keys>>,
\* <<None, {}>> for None, None
get_clique_of_var(tree, v) ==
    IF v \in tree[2] THEN <<tree[1], tree[2]>>
    ELSE get_clique_of_var_loop(tree, v, 3)

get_clique_of_var_loop(tree, v, i) ==
    IF i > Len(tree) THEN <<None, {}>>
    ELSE IF v \in tree[i][2] THEN <<tree[i][1], tree[i][2]>>
    ELSE LET r == get_clique_of_var(tree[i][3], v)
         IN IF r[1] # None /\ r[1] # 0 THEN r
            ELSE get_clique_of_var_loop(tree, v, i + 1)

RECURSIVE observe_clique(_, _, _)
\* observe: the loop over the trees that looks for the clique of the key; it breaks
\* when both the id and the keys it got are truthy, and else keeps the last answer
observe_clique(struct, key_ix, t) ==
    LET r == get_clique_of_var(struct[t], key_ix)
    IN IF (r[1] # None /\ r[1] # 0 /\ r[2] # {}) \/ t = Len(struct) THEN r
       ELSE observe_clique(struct, key_ix, t + 1)

\* observe: the likelihood of a key, one at the observed state and zero elsewhere
likelihood(tree, key_lbl, val) ==
    [a \in Assign({tree.labels[key_lbl]}, axis_sizes(tree)) |->
        IF a[tree.labels[key_lbl]] = val THEN One ELSE Zero]

\* observe: the table after the potential of the clique found for key_lbl is
\* multiplied by the likelihood
observe_key(tree, potentials, key_lbl, val) ==
    LET key_ix == tree.labels[key_lbl]
        clique_ix == observe_clique(tree.struct, key_ix, 1)[1]
    IN [potentials EXCEPT ![clique_ix] =
            einsum_mul(potentials[clique_ix], likelihood(tree, key_lbl, val), {key_ix})]

\* mutant: the shrink mapping holds the key lists of the structure themselves
shrink_clique_keys_shared(tree, key_ix) ==
    [ix \in DOMAIN tree.clique_keys |-> tree.clique_keys[ix] \ {key_ix}]

\* observe: self.clique_keys after the key was removed from the shrink mapping of
\* every node that holds it; the mapping holds list(self.clique_keys[i]), copies
shrink_clique_keys(tree, key_ix) == tree.clique_keys

\* JunctionTree.marginalize for one key label
marginalize(tree, potentials, key_label, normalize) ==
    LET key_ix == tree.labels[key_label]
        clique_ix == tree.keys_to_cliques[key_ix][1]
        value == project(potentials[clique_ix], {key_ix})
        total == SumOver(DOMAIN value, value)
        Z == IF ~normalize \/ total = Zero THEN One ELSE total
    IN [a \in DOMAIN value |-> RDiv(value[a], Z)]

\* mutant: the length of the key list is not looked at
too_many_keys_ignored(key_labels) == FALSE

\* marginalize: len(key_labels) > 1
too_many_keys(key_labels) == Len(key_labels) > 1

\* JunctionTree.marginalize: the error it raises, or the value it returns
marginalize_outcome(tree, potentials, key_labels, normalize) ==
    IF too_many_keys(key_labels)
    THEN [raised |-> "NotImplementedError", value |-> <<>>]
    ELSE IF \E i \in DOMAIN key_labels : key_labels[i] \notin DOMAIN tree.key_sizes
    THEN [raised |-> "ValueError", value |-> <<>>]
    ELSE [raised |-> "", value |-> marginalize(tree, potentials, key_labels[1], normalize)]

----------------------------------------------------------------------------
(* Inputs of the propagation *)

\* a factor table has at most this many zero entries, over all the factors
MaxZeros == 2

\* the factor graphs handed to from_factor_graph: binary keys, a chain of two and
\* a chain of three pairwise factors, the first with a factor on one key
FactorGraphs ==
    {[key_sizes |-> [k \in 1..3 |-> 2], factors |-> <<{2}, {1, 2}, {2, 3}>>],
     [key_sizes |-> [k \in 1..4 |-> 2], factors |-> <<{1, 2}, {2, 3}, {3, 4}>>]}

\* trees handed to JunctionTree(key_sizes, trees) directly: a child that shares no
\* key with its parent, a forest of two trees, and the same forest with a factor
\* over both keys, which no clique holds
HandTrees ==
    {[key_sizes |-> [k \in 1..2 |-> 2], factors |-> <<{1}, {2}>>,
      trees |-> << <<0, {1}, <<2, {}, <<1, {2}>>>>>> >>],
     [key_sizes |-> [k \in 1..2 |-> 2], factors |-> <<{1}, {2}>>,
      trees |-> << <<0, {1}>>, <<1, {2}>> >>],
     [key_sizes |-> [k \in 1..2 |-> 2], factors |-> <<{1, 2}>>,
      trees |-> << <<0, {1}>>, <<1, {2}>> >>]}

\* the tables of the factors: entry 1 + the state of the factor's first key, but
\* zero at up to MaxZeros chosen entries
FactorValues(tree, fs) ==
    LET keys_of(i) == {tree.labels[k] : k \in fs[i]}
        cells == UNION {{<<i, a>> : a \in Assign(keys_of(i), axis_sizes(tree))} :
                            i \in DOMAIN fs}
    IN {[i \in DOMAIN fs |->
            [a \in Assign(keys_of(i), axis_sizes(tree)) |->
                IF <<i, a>> \in Z THEN Zero ELSE <<1 + a[Min(keys_of(i))], 1>>]] :
        Z \in SubsetsUpTo(cells, MaxZeros)}

\* a key label that is not in the size map: the letter after the last key
unknown_label(tree) == Cardinality(DOMAIN tree.key_sizes) + 1

\* the evidence of a call: none, or one key observed at one of its states, or such a
\* key followed by a label that is not in the size map
Evidence(tree) ==
    LET one == {<<k, v>> : k \in DOMAIN tree.key_sizes,
                          v \in 0..(Max(Range(tree.key_sizes)) - 1)}
    IN {<<>>} \cup {<<e>> : e \in one} \cup {<<e, <<unknown_label(tree), 0>>>> : e \in one}

\* the arguments of marginalize, <<key_labels, normalize>>: one key of the size map,
\* a label that is not in it, a list of two keys, and a list of three labels that
\* starts with one that is not in the size map
Queries(tree) ==
    {<<<<k>>, n>> : k \in DOMAIN tree.key_sizes, n \in BOOLEAN}
        \cup {<<<<unknown_label(tree)>>, FALSE>>, <<<<1, 2>>, FALSE>>,
               <<<<unknown_label(tree), 1, 1>>, TRUE>>}

NoBuild ==
    /\ edges = {}
    /\ heap = EmptyBag
    /\ entry_finder = <<>>
    /\ rem_vars = {}
    /\ tri = <<>>
    /\ induced_clusters = <<>>
    /\ cliques = <<>>
    /\ sepsets = <<>>
    /\ sheap = {}
    /\ num_selected = 0
    /\ popped = <<>>

\* the state after jt, phi = JunctionTree.from_factor_graph(...), or after
\* jt = JunctionTree(key_sizes, trees) and phi = JunctionTree.init_potentials(jt, ...)
InitHugin ==
    /\ pc = "idle"
    /\ \E g \in FactorGraphs \cup HandTrees :
          /\ var_sizes = g.key_sizes
          /\ factors = Range(g.factors)
          /\ forest = IF g \in HandTrees THEN g.trees
                      ELSE from_factor_graph_trees(g.key_sizes, g.factors).forest
          /\ jt = JunctionTree(g.key_sizes, forest)
          /\ \E values \in FactorValues(jt, g.factors) :
                /\ phi = init_potentials(jt, g.factors, values)
                /\ hist = <<[op |-> "init_potentials", in_place |-> FALSE, data |-> <<>>,
                             result |-> phi, factors |-> g.factors, values |-> values,
                             built |-> g \in FactorGraphs]>>
    /\ NoBuild
    /\ work = <<>>
    /\ sched = <<>>
    /\ call = <<>>
    /\ query = <<>>
    /\ law_call = <<>>
    /\ root_call = <<>>

----------------------------------------------------------------------------
(* Steps of JunctionTree.propagate *)

\* mutant: hugin is called for every tree on the table propagate started with
next_tree_table_restarted(new_potentials) == hist[Len(hist)].result

\* propagate: new_potentials = bp.hugin(tree, ..., new_potentials, ...), the table
\* that the call of hugin for one tree hands to the call for the next tree
next_tree_table(new_potentials) == new_potentials

\* mutant: propagate works on the caller's table whatever in_place says
caller_table_aliased(in_place, new_potentials) == new_potentials

\* the table the caller holds follows the working table when the call is in place
caller_table(in_place, new_potentials) == IF in_place THEN new_potentials ELSE phi

\* propagate is called on the table the caller has, that of init_potentials or the
\* one the call before returned; a repeated call brings no evidence
propagate_call(in_place, data) ==
    /\ pc = "idle"
    /\ Len(hist) <= 2
    /\ Len(hist) = 2 => data = <<>>
    /\ phi' = hist[Len(hist)].result
    /\ work' = phi'
    /\ call' = [in_place |-> in_place, data |-> data, todo |-> data, tree |-> 1]
    /\ pc' = IF data # <<>> THEN "observe" ELSE "hugin"
    /\ sched' = IF data # <<>> THEN <<>> ELSE hugin(jt.struct[1])
    /\ UNCHANGED <<buildVars, law_call, root_call, jt, query, hist>>

\* observe: one key of the evidence is multiplied into its clique
observe_step ==
    /\ pc = "observe"
    /\ call.todo # <<>>
    /\ call.todo[1][1] \in DOMAIN jt.labels
    /\ observe_clique(jt.struct, jt.labels[call.todo[1][1]], 1)[1] # None
    /\ work' = observe_key(jt, work, call.todo[1][1], call.todo[1][2])
    /\ phi' = caller_table(call.in_place, work')
    /\ jt' = [jt EXCEPT !.clique_keys = shrink_clique_keys(jt, jt.labels[call.todo[1][1]])]
    /\ call' = [call EXCEPT !.todo = Tail(call.todo)]
    /\ pc' = IF Tail(call.todo) = <<>> THEN "hugin" ELSE "observe"
    /\ sched' = IF Tail(call.todo) = <<>> THEN hugin(jt.struct[1]) ELSE <<>>
    /\ UNCHANGED <<buildVars, law_call, root_call, query, hist>>

\* observe: find_key on a label that is not in self.labels raises KeyError
observe_key_error ==
    /\ pc = "observe"
    /\ call.todo # <<>>
    /\ call.todo[1][1] \notin DOMAIN jt.labels
    /\ pc' = "KeyError"
    /\ UNCHANGED <<buildVars, propVars>>

\* observe: no clique was found for the key, enumerate(None) raises TypeError
observe_raise ==
    /\ pc = "observe"
    /\ call.todo # <<>>
    /\ call.todo[1][1] \in DOMAIN jt.labels
    /\ observe_clique(jt.struct, jt.labels[call.todo[1][1]], 1)[1] = None
    /\ pc' = "TypeError"
    /\ UNCHANGED <<buildVars, propVars>>

\* one update of collect or distribute
hugin_message ==
    /\ pc = "hugin"
    /\ sched # <<>>
    /\ work' = pass_message(work, Head(sched))
    /\ phi' = caller_table(call.in_place, work')
    /\ sched' = Tail(sched)
    /\ UNCHANGED <<pc, buildVars, law_call, root_call, jt, call, query, hist>>

\* hugin returns for one tree and propagate goes on to the next tree
hugin_next_tree ==
    /\ pc = "hugin"
    /\ sched = <<>>
    /\ call.tree < Len(jt.struct)
    /\ call' = [call EXCEPT !.tree = call.tree + 1]
    /\ sched' = hugin(jt.struct[call.tree + 1])
    /\ work' = next_tree_table(work)
    /\ phi' = caller_table(call.in_place, work')
    /\ UNCHANGED <<pc, buildVars, law_call, root_call, jt, query, hist>>

\* hugin returns for the last tree and propagate returns new_potentials
propagate_return ==
    /\ pc = "hugin"
    /\ sched = <<>>
    /\ call.tree >= Len(jt.struct)
    /\ hist' = Append(hist, [op |-> "propagate", in_place |-> call.in_place,
                             data |-> call.data, result |-> work])
    /\ pc' = "idle"
    /\ UNCHANGED <<buildVars, law_call, root_call, jt, phi, work, sched, call, query>>

\* marginalize is called on the table the caller has, as its last call
marginalize_call(key_labels, normalize) ==
    /\ pc = "idle"
    /\ phi' = hist[Len(hist)].result
    /\ query' = [key_labels |-> key_labels, normalize |-> normalize,
                 outcome |-> marginalize_outcome(jt, phi', key_labels, normalize)]
    /\ pc' = "queried"
    /\ UNCHANGED <<buildVars, law_call, root_call, jt, work, sched, call, hist>>

NextHugin ==
    \/ \E in_place \in BOOLEAN, data \in Evidence(jt) : propagate_call(in_place, data)
    \/ \E q \in Queries(jt) : marginalize_call(q[1], q[2])
    \/ observe_step
    \/ observe_key_error
    \/ observe_raise
    \/ hugin_message
    \/ hugin_next_tree
    \/ propagate_return

SpecHugin == InitHugin /\ [][NextHugin]_vars

----------------------------------------------------------------------------
(* JunctionTree.propagate on a forest of two trees with two cliques each *)

\* a forest handed to JunctionTree(key_sizes, trees): two trees that share no key
HandForests ==
    {[key_sizes |-> [k \in 1..6 |-> 2], factors |-> <<{1, 2}, {5, 6}>>,
      trees |-> << <<0, {1, 2}, <<1, {2}, <<2, {2, 3}>>>>>>,
                   <<3, {4, 5}, <<4, {5}, <<5, {5, 6}>>>>>> >>]}

\* the evidence of a call on the forest: none, or one key observed at state 0
EvidenceForest(tree) == {<<>>} \cup {<< <<k, 0>> >> : k \in DOMAIN tree.key_sizes}

\* the state after jt = JunctionTree(key_sizes, trees) and
\* phi = JunctionTree.init_potentials(jt, factors, values)
InitForest ==
    /\ pc = "idle"
    /\ \E g \in HandForests :
          /\ var_sizes = g.key_sizes
          /\ factors = Range(g.factors)
          /\ forest = g.trees
          /\ jt = JunctionTree(g.key_sizes, forest)
          /\ \E values \in FactorValues(jt, g.factors) :
                /\ phi = init_potentials(jt, g.factors, values)
                /\ hist = <<[op |-> "init_potentials", in_place |-> FALSE, data |-> <<>>,
                             result |-> phi, factors |-> g.factors, values |-> values,
                             built |-> FALSE]>>
    /\ NoBuild
    /\ work = <<>>
    /\ sched = <<>>
    /\ call = <<>>
    /\ query = <<>>
    /\ law_call = <<>>
    /\ root_call = <<>>

NextForest ==
    \/ \E in_place \in BOOLEAN, data \in EvidenceForest(jt) : propagate_call(in_place, data)
    \/ observe_step
    \/ observe_raise
    \/ hugin_message
    \/ hugin_next_tree
    \/ propagate_return

SpecForest == InitForest /\ [][NextForest]_vars

----------------------------------------------------------------------------
(* SumProduct.absorb called on arrays of the caller's choice *)

MaxEntry == 2

\* the arrays on the axes keys, two states each, with entries 0..MaxEntry
Arrays(keys) == [Assign(keys, [k \in keys |-> 2]) -> {Frac(n, 1) : n \in 0..MaxEntry}]

\* a clique on keys 0 and 1 and a separator on key 1, or on no key
InitAbsorb ==
    /\ pc = "absorb"
    /\ \E sep_vars \in {{1}, {}} :
          \E clique_pot \in Arrays({0, 1}), sep_pot \in Arrays(sep_vars),
             new_sep_pot \in Arrays(sep_vars) :
                law_call = [clique_pot |-> clique_pot, sep_pot |-> sep_pot,
                            new_sep_pot |-> new_sep_pot, sep_vars |-> sep_vars,
                            result |-> <<>>]
    /\ factors = {}
    /\ var_sizes = <<>>
    /\ induced_clusters = <<>>
    /\ cliques = <<>>
    /\ forest = <<>>
    /\ NoBuild
    /\ jt = <<>>
    /\ phi = <<>>
    /\ work = <<>>
    /\ sched = <<>>
    /\ call = <<>>
    /\ query = <<>>
    /\ root_call = <<>>
    /\ hist = <<>>

\* result = sum_product.absorb(clique_pot, clique_vars, sep_pot, new_sep_pot, sep_vars)
absorb_call ==
    /\ pc = "absorb"
    /\ law_call' = [law_call EXCEPT !.result =
                        absorb(law_call.clique_pot, law_call.sep_pot,
                               law_call.new_sep_pot, law_call.sep_vars)]
    /\ pc' = "absorbed"
    /\ UNCHANGED <<buildVars, jt, phi, work, sched, call, query, root_call, hist>>

NextAbsorb == absorb_call

SpecAbsorb == InitAbsorb /\ [][NextAbsorb]_vars

----------------------------------------------------------------------------
(* change_root on its own: every rooted tree of up to MaxCliques cliques, and a
   clique id that is the root, another clique of the tree, or no clique of it *)

\* number of cliques of the trees handed to change_root
MaxCliques == 5

\* the parent of each clique but the first, a clique of smaller id
ParentMaps(n) == {p \in [1..(n - 1) -> 0..(n - 2)] : \A c \in 1..(n - 1) : p[c] < c}

RECURSIVE rooted_tree(_, _, _), rooted_children(_, _, _, _)
\* [clique id, keys, (separator id, separator keys, child tree), ...]: clique c
\* holds its own key and the key of its parent, which is the separator towards it
rooted_tree(p, n, c) ==
    <<c, IF c = 0 THEN {1} ELSE {p[c] + 1, c + 1}>> \o rooted_children(p, n, c, c + 1)

rooted_children(p, n, c, k) ==
    IF k > n - 1 THEN <<>>
    ELSE (IF p[k] = c THEN <<<<n + k - 1, {c + 1}, rooted_tree(p, n, k)>>>> ELSE <<>>)
            \o rooted_children(p, n, c, k + 1)

InitChangeRoot ==
    /\ pc = "change_root"
    /\ \E n \in 1..MaxCliques :
          \E p \in ParentMaps(n), clique_ix \in 0..n :
              root_call = [tree |-> rooted_tree(p, n, 0), clique_ix |-> clique_ix,
                           result |-> <<>>]
    /\ factors = {}
    /\ var_sizes = <<>>
    /\ induced_clusters = <<>>
    /\ cliques = <<>>
    /\ forest = <<>>
    /\ NoBuild
    /\ jt = <<>>
    /\ phi = <<>>
    /\ work = <<>>
    /\ sched = <<>>
    /\ call = <<>>
    /\ query = <<>>
    /\ law_call = <<>>
    /\ hist = <<>>

\* result = change_root(tree, clique_ix)
change_root_call ==
    /\ pc = "change_root"
    /\ root_call' = [root_call EXCEPT !.result =
                         change_root(root_call.tree, root_call.clique_ix, <<>>, <<>>)]
    /\ pc' = "rerooted"
    /\ UNCHANGED <<buildVars, jt, phi, work, sched, call, query, law_call, hist>>

NextChangeRoot == change_root_call

SpecChangeRoot == InitChangeRoot /\ [][NextChangeRoot]_vars

----------------------------------------------------------------------------
(* Reading a forest *)

RECURSIVE tree_cliques_seq(_), tree_cliques_sum(_, _)
\* the cliques of a tree, <<id, keys>>, one entry per occurrence
tree_cliques_seq(tree) == <<<<tree[1], tree[2]>>>> \o tree_cliques_sum(tree, 3)

tree_cliques_sum(tree, i) ==
    IF i > Len(tree) THEN <<>>
    ELSE tree_cliques_seq(tree[i][3]) \o tree_cliques_sum(tree, i + 1)

RECURSIVE tree_links_seq(_), tree_links_sum(_, _)
\* the (separator, child) entries of a tree, one per occurrence, as records
tree_links_seq(tree) == tree_links_sum(tree, 3)

tree_links_sum(tree, i) ==
    IF i > Len(tree) THEN <<>>
    ELSE <<[parent |-> tree[1], parent_keys |-> tree[2],
            sep |-> tree[i][1], sep_keys |-> tree[i][2],
            child |-> tree[i][3][1], child_keys |-> tree[i][3][2]]>>
             \o tree_links_seq(tree[i][3]) \o tree_links_sum(tree, i + 1)

RECURSIVE forest_cliques_seq(_, _)
forest_cliques_seq(fr, i) ==
    IF i > Len(fr) THEN <<>>
    ELSE tree_cliques_seq(fr[i]) \o forest_cliques_seq(fr, i + 1)

RECURSIVE forest_links_seq(_, _)
forest_links_seq(fr, i) ==
    IF i > Len(fr) THEN <<>>
    ELSE tree_links_seq(fr[i]) \o forest_links_seq(fr, i + 1)

\* how often x occurs in the sequence s
Count(s, x) == Cardinality({i \in DOMAIN s : s[i] = x})

\* the cliques of one tree that contain key k are connected in the tree
KeyConnected(tree, k) ==
    LET holders == {c[1] : c \in {d \in Range(tree_cliques_seq(tree)) : k \in d[2]}}
        adjacent == {{l.parent, l.child} : l \in Range(tree_links_seq(tree))}
    IN Connected(holders, adjacent)

\* the graph find_triangulation leaves: the factors' edges and every fill-in edge
TriangulatedGraph == factors_to_undirected_graph(factors) \cup UNION Range(tri)

\* S is a chordless cycle of the graph E: connected, and every vertex of S has
\* exactly two neighbours inside S
ChordlessCycle(S, E) ==
    /\ \A v \in S : Cardinality({w \in S : {v, w} \in E /\ w # v}) = 2
    /\ Connected(S, E)

\* the connected components of the factor graph over the keys of the size map
Component(k) == Reach({k}, factors_to_undirected_graph(factors))
Components == {Component(k) : k \in DOMAIN var_sizes}

----------------------------------------------------------------------------
(* Reading a potential table *)

\* propagate has returned n times
Returned(n) == pc = "idle" /\ Len(hist) = n + 1

\* the table init_potentials made, and the tables the calls of propagate returned
initial_table == hist[1].result
first_result == hist[2].result
second_result == hist[3].result

\* the product of the clique potentials of a tree, an array over all keys of the tree
joint(tree, potentials) ==
    LET cl == Range(tree_cliques_seq(tree))
    IN [a \in Assign(UNION {c[2] : c \in cl}, axis_sizes(jt)) |->
            ProdOver({c[1] : c \in cl},
                     [ix \in {c[1] : c \in cl} |->
                         potentials[ix][Restrict(a, jt.clique_keys[ix])]])]

\* the tree of the forest that holds key index key_ix in one of its cliques
tree_with_key(key_ix) ==
    jt.struct[Min({t \in DOMAIN jt.struct :
                      \E c \in Range(tree_cliques_seq(jt.struct[t])) : key_ix \in c[2]})]

\* the array with one at state v of the key and zero at its other states
one_hot(key_ix, v) ==
    [a \in Assign({key_ix}, axis_sizes(jt)) |-> IF a[key_ix] = v THEN One ELSE Zero]

----------------------------------------------------------------------------
(* Claims *)

\* C1 (calibration): after propagate with no evidence on the table of init_potentials,
\* for every separator S between a parent clique P and a child clique C, P's potential
\* summed over P's keys not in S equals S's stored potential, and so does C's.
C1_Calibrated ==
    (Returned(1) /\ hist[2].data = <<>>) =>
        \A l \in Range(forest_links_seq(jt.struct, 1)) :
            /\ project(first_result[l.parent], l.sep_keys) = first_result[l.sep]
            /\ project(first_result[l.child], l.sep_keys) = first_result[l.sep]

\* C2 (brute-force equivalence): on a tree whose separators start as all ones, hugin
\* with the sum-product law leaves every clique and every separator holding the
\* product of all input clique potentials of the tree summed down to the node's keys.
C2_BruteForce ==
    (Returned(1) /\ hist[2].data = <<>>) =>
        \A t \in DOMAIN jt.struct :
            \A n \in Range(df_traverse(jt.struct[t])) :
                first_result[n[1]] = project(joint(jt.struct[t], initial_table), n[2])

\* C3 (running intersection): in every forest construct_junction_tree returns on the
\* cliques of the triangulation, the cliques that contain a key k form a connected
\* subtree, for every key k.
C3_RunningIntersection ==
    pc = "built" =>
        \A i \in DOMAIN forest : \A k \in Keys : KeyConnected(forest[i], k)

\* C3 witness: a returned tree of three or more cliques whose separators differ in size
C3_Witness ==
    /\ pc = "built"
    /\ Len(cliques) >= 3
    /\ \E a, b \in Range(forest_links_seq(forest, 1)) :
           Cardinality(a.sep_keys) < Cardinality(b.sep_keys)

\* C4 (chordality): once find_triangulation has returned, the graph of the factors'
\* edges plus the fill-in edges has no chordless cycle of four or more keys, and every
\* induced cluster is complete in it.
C4_Chordal ==
    pc # "find_triangulation" =>
        /\ \A S \in SUBSET Keys :
               Cardinality(S) >= 4 => ~ChordlessCycle(S, TriangulatedGraph)
        /\ \A i \in DOMAIN induced_clusters :
               \A a, b \in induced_clusters[i] : a # b => {a, b} \in TriangulatedGraph

\* C4 witness: the factor graph had a chordless cycle and a fill-in edge was added
C4_Witness ==
    /\ pc # "find_triangulation"
    /\ UNION Range(tri) # {}
    /\ \E S \in SUBSET Keys :
           Cardinality(S) >= 4 /\ ChordlessCycle(S, factors_to_undirected_graph(factors))

\* C5 (disconnected input), as claimed: when the keys split into two groups that no
\* factor spans, the build completes with a forest of exactly two trees, one per group,
\* and no separator joins cliques of different groups.
C5_DisconnectedBuilds ==
    (Cardinality(Components) = 2 /\ pc \in {"built", "IndexError"}) =>
        /\ pc = "built"
        /\ Len(forest) = 2
        /\ \A g \in Components : \E i \in DOMAIN forest :
               UNION {c[2] : c \in Range(tree_cliques_seq(forest[i]))} = g

\* C6 (evidence correctness): after propagate with evidence {k: v}, v in k's domain,
\* every entry of a clique or separator table whose coordinate for k differs from v
\* is zero, and the normalised marginal of k is one at v and zero at every other state
\* (read for evidence to which the factors give a positive weight).
C6_EvidenceOneHot ==
    (Returned(1) /\ hist[2].data # <<>>) =>
        LET k == hist[2].data[1][1]
            v == hist[2].data[1][2]
            key_ix == jt.labels[k]
            prior == project(joint(tree_with_key(key_ix), initial_table), {key_ix})
        IN /\ \A ix \in DOMAIN first_result : \A a \in DOMAIN first_result[ix] :
                  (key_ix \in DOMAIN a /\ a[key_ix] # v) => first_result[ix][a] = Zero
           /\ prior[[x \in {key_ix} |-> v]] # Zero =>
                  marginalize(jt, first_result, k, TRUE) = one_hot(key_ix, v)

\* C7 (idempotence): propagate called a second time, with no new evidence, on the
\* table the first call returned yields a table equal to it entry for entry, whether
\* or not the first call absorbed evidence.
C7_Idempotent ==
    Returned(2) => second_result = first_result

\* C8 (marginal path-independence): after propagate, for every key k and any two
\* cliques A and B of one tree that both contain k, A's potential summed over all keys
\* but k is the same vector as B's potential summed over all keys but k.
C8_PathIndependent ==
    Returned(1) =>
        \A t \in DOMAIN jt.struct :
            \A A, B \in Range(tree_cliques_seq(jt.struct[t])) :
                \A k \in A[2] \cap B[2] :
                    project(first_result[A[1]], {k}) = project(first_result[B[1]], {k})

\* C9 (separator subset): in every forest held during and after
\* construct_junction_tree, every (separator, child) entry has a non-empty key set
\* equal to the intersection of the parent's and the child's key sets.
C9_SeparatorIsIntersection ==
    \A l \in Range(forest_links_seq(forest, 1)) :
        /\ l.sep_keys # {}
        /\ l.sep_keys = l.parent_keys \cap l.child_keys
        /\ l.sep_keys \subseteq l.parent_keys
        /\ l.sep_keys \subseteq l.child_keys

\* C9 witness: a merge that re-rooted a tree of several cliques (change_root walked
\* down from the old root) has been made
C9_Witness ==
    /\ pc = "select"
    /\ Len(popped) = 4
    /\ popped[3] = "merged"
    /\ popped[4] # popped[2]

\* C10 (unique ids): in every returned forest each clique id 0..|cliques|-1 occurs
\* exactly once, every separator id is at least |cliques|, and no separator id
\* occurs twice.
C10_UniqueIds ==
    pc = "built" =>
        LET cs == forest_cliques_seq(forest, 1)
            ls == forest_links_seq(forest, 1)
            clique_ids == [i \in DOMAIN cs |-> cs[i][1]]
            sep_ids == [i \in DOMAIN ls |-> ls[i].sep]
        IN /\ \A id \in 0..(Len(cliques) - 1) : Count(clique_ids, id) = 1
           /\ Len(cs) = Len(cliques)
           /\ \A i \in DOMAIN sep_ids : sep_ids[i] >= Len(cliques)
           /\ \A i \in DOMAIN sep_ids : Count(sep_ids, sep_ids[i]) = 1

\* C10 witness: a returned tree with at least two separators
C10_Witness ==
    /\ pc = "built"
    /\ Len(forest_links_seq(forest, 1)) >= 2

\* C11 (triangulation terminates in |keys| iterations): every iteration of
\* find_triangulation eliminates exactly one key that was still remaining and appends
\* one cluster, the eliminated key plus its neighbours that still remain; the clusters
\* appended and the keys remaining always add up to the keys of the size map, and the
\* loop is left only with no key remaining, so with one cluster per key.
C11_OneClusterPerKey ==
    /\ [](/\ Len(induced_clusters) + Cardinality(rem_vars) = Cardinality(DOMAIN var_sizes)
          /\ pc # "find_triangulation" => rem_vars = {})
    /\ [][induced_clusters' # induced_clusters =>
            \E v \in rem_vars :
                /\ rem_vars' = rem_vars \ {v}
                /\ induced_clusters' =
                      Append(induced_clusters,
                             {v} \cup {n \in rem_vars' : {v, n} \in edges})]_vars

\* C11 witness: find_triangulation has returned after an elimination whose cluster
\* left out a neighbour eliminated before it
C11_Witness ==
    /\ pc = "construct_junction_tree"
    /\ Len(induced_clusters) = Cardinality(DOMAIN var_sizes)
    /\ \E i \in DOMAIN induced_clusters : \E v \in induced_clusters[i] :
          \E n \in DOMAIN var_sizes :
              /\ {v, n} \in factors_to_undirected_graph(factors)
              /\ n \notin induced_clusters[i]
              /\ induced_clusters[i] \ {v} =
                    {m \in induced_clusters[i] \ {v} : {v, m} \in edges}
              /\ Cardinality(induced_clusters[i]) >= 2

\* C12 (clique extraction): for any list of clusters, no clique identify_cliques
\* returns has its key set contained in the key set of a returned clique at another
\* position, and every input cluster is contained in some returned clique.
C12_CliquesMaximal ==
    pc = "cliques" =>
        /\ \A i, j \in DOMAIN cliques : i # j => ~(cliques[i] \subseteq cliques[j])
        /\ \A c \in Range(induced_clusters) : \E q \in Range(cliques) : c \subseteq q

\* C13 (factor assignment): on a tree built from the factors, the table of
\* init_potentials is the all-ones table with every factor multiplied into exactly one
\* node, a clique (never a separator) whose keys contain the factor's keys; so every
\* separator potential is all ones.
C13_FactorInOneClique ==
    (pc = "idle" /\ Len(hist) = 1 /\ hist[1].built) =>
        LET fs == hist[1].factors
            keys_of(i) == {jt.labels[k] : k \in fs[i]}
            clique_ids == {c[1] : c \in Range(forest_cliques_seq(jt.struct, 1))}
        IN /\ \E target \in [DOMAIN fs -> clique_ids] :
                /\ \A i \in DOMAIN fs : keys_of(i) \subseteq jt.clique_keys[target[i]]
                /\ \A ix \in clique_ids :
                      initial_table[ix] =
                          [a \in Assign(jt.clique_keys[ix], axis_sizes(jt)) |->
                              ProdOver({i \in DOMAIN fs : target[i] = ix},
                                       [i \in DOMAIN fs |->
                                           hist[1].values[i][Restrict(a, keys_of(i))]])]
           /\ \A l \in Range(forest_links_seq(jt.struct, 1)) :
                  initial_table[l.sep] = ones(l.sep_keys, axis_sizes(jt))

\* C13 witness: a built tree with a factor whose keys all lie in a separator, and a
\* table entry that differs from one
C13_Witness ==
    /\ pc = "idle"
    /\ Len(hist) = 1
    /\ hist[1].built
    /\ \E i \in DOMAIN hist[1].factors : \E l \in Range(forest_links_seq(jt.struct, 1)) :
          {jt.labels[k] : k \in hist[1].factors[i]} \subseteq l.sep_keys
    /\ \E ix \in DOMAIN phi : \E a \in DOMAIN phi[ix] : phi[ix][a] = Zero

\* C14: propagate with in_place false leaves the table it was given as it was, at
\* every step of the call and after it returned, and works on a table of its own;
\* with in_place true the table it works on, and returns, is the caller's table.
C14_InPlace ==
    /\ (pc \in {"observe", "hugin"} /\ ~call.in_place) => phi = hist[Len(hist)].result
    /\ (pc \in {"observe", "hugin"} /\ call.in_place) => phi = work
    /\ (pc = "idle" /\ Len(hist) >= 2) =>
          IF hist[Len(hist)].in_place
          THEN phi = hist[Len(hist)].result
          ELSE phi = hist[Len(hist) - 1].result

\* a call with in_place false has returned a table that differs from the caller's,
\* after a call with in_place true
C14_Witness ==
    /\ pc = "idle"
    /\ Len(hist) = 3
    /\ hist[2].in_place
    /\ ~hist[3].in_place
    /\ hist[3].result # phi
    /\ phi = hist[2].result

\* C15: marginalize called with two or more key labels raises NotImplementedError
\* whatever the labels and the table are, returns no value, and leaves the table
\* as it was.
C15_ManyKeysNotImplemented ==
    (pc = "queried" /\ Len(query.key_labels) >= 2) =>
        /\ query.outcome.raised = "NotImplementedError"
        /\ query.outcome.value = <<>>
        /\ phi = hist[Len(hist)].result

\* marginalize was called with three labels, the first unknown, on a propagated table
C15_Witness ==
    /\ pc = "queried"
    /\ Len(query.key_labels) = 3
    /\ query.key_labels[1] \notin DOMAIN jt.key_sizes
    /\ Len(hist) >= 2

\* C16: when propagate fails, for instance on an evidence key that is not in the
\* model after other evidence keys were processed, the table the caller passed is
\* as it was before the call, also when the call was made in place.
C16_NoPartialSuccess ==
    pc \in {"KeyError", "TypeError"} => phi = hist[Len(hist)].result

\* C18: init_potentials returns no potential table when the keys of some factor
\* are not contained in the keys of any clique of the tree it is given.
C18_MissingCliqueFatal ==
    (\E i \in DOMAIN hist[1].factors :
        factor_clique(jt, {jt.labels[k] : k \in hist[1].factors[i]}) = 0)
        => hist[1].result = <<>>

\* C20: observe, propagate and marginalize leave struct, clique_keys,
\* keys_to_cliques, labels and key_sizes as the constructor built them, whatever
\* the calls and the evidence were, and a fresh table made from the structure is
\* the one that was made from it at first.
C20_StructureKept ==
    /\ jt = JunctionTree(var_sizes, forest)
    /\ pc \in {"idle", "queried", "KeyError", "TypeError"} =>
          init_potentials(jt, hist[1].factors, hist[1].values) = hist[1].result

\* a key was queried after a call with evidence and a second call
C20_Witness ==
    /\ pc = "queried"
    /\ Len(hist) = 3
    /\ hist[2].data # <<>>
    /\ hist[2].in_place
    /\ query.outcome.raised = ""

\* C17: a factor list that names a key the size map does not have is rejected
\* before any elimination step: find_triangulation makes no induced cluster and
\* no fill-in edge for it.
C17_UnknownKeyRejected ==
    (\E f \in factors : ~(f \subseteq DOMAIN var_sizes)) =>
        /\ induced_clusters = <<>>
        /\ UNION Range(tri) = {}

\* C19: absorb called with an old separator potential whose entries are all zero
\* returns an array of the shape of the clique potential with every entry zero,
\* and raises nothing.
C19_ZeroSeparator ==
    (pc = "absorbed" /\ \A s \in DOMAIN law_call.sep_pot : law_call.sep_pot[s] = Zero) =>
        law_call.result = [a \in DOMAIN law_call.clique_pot |-> Zero]

\* absorb was called with an all-zero old separator on key 1, a clique potential
\* and a new separator without a zero entry
C19_Witness ==
    /\ pc = "absorbed"
    /\ law_call.sep_vars = {1}
    /\ \A s \in DOMAIN law_call.sep_pot : law_call.sep_pot[s] = Zero
    /\ \A a \in DOMAIN law_call.clique_pot : law_call.clique_pot[a] # Zero
    /\ \A s \in DOMAIN law_call.new_sep_pot : law_call.new_sep_pot[s] # Zero

\* C30: absorb called with an old separator that has a nonzero entry returns, at
\* every clique cell whose separator coordinates select a nonzero old value, the
\* clique value times new / old at those coordinates; the whole clique is replaced
\* by zeros only when every entry of the old separator is zero.
C30_PartialZeros ==
    (pc = "absorbed" /\ \E s \in DOMAIN law_call.sep_pot : law_call.sep_pot[s] # Zero) =>
        \A a \in DOMAIN law_call.clique_pot :
            LET s == Restrict(a, law_call.sep_vars)
            IN law_call.sep_pot[s] # Zero =>
                  law_call.result[a] =
                      RMul(law_call.clique_pot[a],
                           RDiv(law_call.new_sep_pot[s], law_call.sep_pot[s]))

\* the score <<fill_in_count, cluster_weight>> of a remaining key in the current
\* graph, over its neighbours that remain
current_score(x) ==
    LET nbrs == {n \in rem_vars \ {x} : {x, n} \in edges}
    IN <<num_new_edges(nbrs, edges), var_sizes[x] * Prod(nbrs, var_sizes)>>

\* ascending lexicographic order of two scores
ScoreLess(a, b) == a[1] < b[1] \/ (a[1] = b[1] /\ a[2] < b[2])

\* C22: at every elimination step of find_triangulation the key eliminated is a
\* remaining key whose score (fill-in count, cluster weight), computed over its
\* remaining neighbours in the current graph with all earlier fill-in edges, is
\* minimal among the remaining keys.
C22_MinFill ==
    [][induced_clusters' # induced_clusters =>
          \E v \in rem_vars :
              /\ rem_vars' = rem_vars \ {v}
              /\ \A u \in rem_vars : ~ScoreLess(current_score(u), current_score(v))]_vars

\* C28: on a forest whose separators lie in both adjacent cliques, the search for
\* the clique of a key that observe makes over the trees ends with the id and the
\* keys of a clique that holds the key, whatever the id of the clique (id 0 too)
\* and the place of its tree; never with a separator or with nothing.
C28_CliqueLookup ==
    (/\ pc = "observe"
     /\ call.todo # <<>>
     /\ call.todo[1][1] \in DOMAIN jt.labels
     /\ \A l \in Range(forest_links_seq(jt.struct, 1)) :
           l.sep_keys \subseteq l.parent_keys \cap l.child_keys) =>
        LET key_ix == jt.labels[call.todo[1][1]]
            r == observe_clique(jt.struct, key_ix, 1)
        IN /\ r[1] \in {c[1] : c \in Range(forest_cliques_seq(jt.struct, 1))}
           /\ r[2] = jt.clique_keys[r[1]]
           /\ key_ix \in r[2]

\* C29: for each observed key, observe multiplies the indicator vector of the key
\* into exactly one clique potential, that of a clique holding the key, and leaves
\* every separator and every other clique as it was; all evidence is absorbed
\* before the first collect message of any tree.
C29_EvidenceAbsorbed ==
    /\ [](pc = "hugin" => call.todo = <<>>)
    /\ [][(pc = "observe" /\ call.todo[1][1] \in DOMAIN jt.labels) =>
            LET key_lbl == call.todo[1][1]
                key_ix == jt.labels[key_lbl]
            IN /\ pc' \in {"observe", "hugin"}
               /\ call'.todo = Tail(call.todo)
               /\ \E c \in Range(forest_cliques_seq(jt.struct, 1)) :
                     /\ key_ix \in c[2]
                     /\ work' = [work EXCEPT ![c[1]] =
                                    einsum_mul(work[c[1]],
                                               likelihood(jt, key_lbl, call.todo[1][2]),
                                               {key_ix})]]_vars

\* the updates hugin makes on the tree that propagate is at, and the links of the tree
tree_schedule == hugin(jt.struct[call.tree])

tree_links == Range(tree_links_seq(jt.struct[call.tree]))

\* the places in the schedule of the updates of one phase on the link l
places(phase, l) ==
    {i \in DOMAIN tree_schedule :
        /\ tree_schedule[i].phase = phase
        /\ tree_schedule[i].sep = l.sep
        /\ tree_schedule[i].sep_vars = l.sep_keys
        /\ {tree_schedule[i].src, tree_schedule[i].dst} = {l.parent, l.child}}

\* the updates that are still to be made are the end of the schedule
schedule_followed ==
    \E full \in {tree_schedule} :
        /\ Len(sched) <= Len(full)
        /\ sched = SubSeq(full, Len(full) - Len(sched) + 1, Len(full))

\* hugin has been called on a tree and has made no update yet
schedule_made == pc = "hugin" /\ sched = tree_schedule

\* C23: in collect the message of a child to its parent (the child projected on
\* the separator, absorbed into the parent with the separator's current value as
\* the old value, and stored in the separator) is made only after the messages of
\* all the child's own children were absorbed into the child; collect changes a
\* clique only by absorbing the messages of its children, so leaves are unchanged.
C23_CollectOrder ==
    /\ [](pc = "hugin" => schedule_followed)
    /\ [](schedule_made =>
            /\ \A l \in tree_links :
                  /\ Cardinality(places("collect", l)) = 1
                  /\ \A i \in places("collect", l) :
                        /\ tree_schedule[i].src = l.child
                        /\ tree_schedule[i].dst = l.parent
                        /\ \A below \in tree_links :
                              below.parent = l.child =>
                                  \A j \in places("collect", below) : j < i)
    /\ [][(pc = "hugin" /\ sched # <<>> /\ Head(sched).phase = "collect") =>
            LET m == Head(sched)
                new_sep_pot == project(work[m.src], m.sep_vars)
            IN work' = [work EXCEPT
                           ![m.dst] = absorb(work[m.dst], work[m.sep], new_sep_pot, m.sep_vars),
                           ![m.sep] = new_sep_pot]]_vars

\* the last collect message of a tree with a clique below a child of the root has
\* been passed
C23_Witness ==
    /\ pc = "hugin"
    /\ \E l, below \in tree_links : below.parent = l.child
    /\ sched # <<>>
    /\ Head(sched).phase = "distribute"
    /\ Len(sched) * 2 = Len(tree_schedule)

\* C24: in hugin every collect message of a tree comes before every distribute
\* message of the tree; the message of a parent to a child is made after the parent
\* absorbed the message of its own parent, with the separator value stored by
\* collect as the old value; each separator is written once in collect and once in
\* distribute, and distribute does not change the root.
C24_DistributeOrder ==
    /\ [](pc = "hugin" => schedule_followed)
    /\ [](schedule_made =>
            /\ \A i, j \in DOMAIN tree_schedule :
                  (tree_schedule[i].phase = "collect" /\ tree_schedule[j].phase = "distribute")
                      => i < j
            /\ \A i \in DOMAIN tree_schedule :
                  tree_schedule[i].phase = "distribute" =>
                      tree_schedule[i].dst # jt.struct[call.tree][1]
            /\ \A l \in tree_links :
                  /\ Cardinality(places("collect", l)) = 1
                  /\ Cardinality(places("distribute", l)) = 1
                  /\ \A i \in places("distribute", l) :
                        /\ tree_schedule[i].src = l.parent
                        /\ tree_schedule[i].dst = l.child
                        /\ \A below \in tree_links :
                              below.parent = l.child =>
                                  \A j \in places("distribute", below) : i < j)
    /\ [][(pc = "hugin" /\ sched # <<>> /\ Head(sched).phase = "distribute") =>
            LET m == Head(sched)
                new_sep_pot == project(work[m.src], m.sep_vars)
            IN /\ work[m.sep] = project(work[m.dst], m.sep_vars)
               /\ work' = [work EXCEPT
                              ![m.dst] = absorb(work[m.dst], work[m.sep], new_sep_pot, m.sep_vars),
                              ![m.sep] = new_sep_pot]]_vars

\* all messages of a tree with a clique below a child of the root have been passed
C24_Witness ==
    /\ pc = "hugin"
    /\ \E l, below \in tree_links : below.parent = l.child
    /\ sched = <<>>
    /\ work # hist[Len(hist)].result

\* the ids of the cliques and separators of a tree
tree_ids(tree) ==
    {c[1] : c \in Range(tree_cliques_seq(tree))} \cup {l.sep : l \in Range(tree_links_seq(tree))}

\* the trees of a forest in the opposite order
reversed(struct) == [i \in DOMAIN struct |-> struct[Len(struct) + 1 - i]]

\* C21: while hugin runs on one tree of a forest only the table entries of the
\* cliques and separators of that tree change and the entries of every other tree
\* stay as they are; so the table propagate returns is the one it returns when the
\* trees are processed in the opposite order.
C21_IndependentTrees ==
    /\ [][pc = "hugin" =>
            \A ix \in DOMAIN work :
                ix \notin tree_ids(jt.struct[call.tree]) => work'[ix] = work[ix]]_vars
    /\ [](\A k \in 2..Len(hist) :
            (pc = "idle" /\ hist[k].data = <<>>) =>
                hist[k].result = hugin_trees(hist[k - 1].result, reversed(jt.struct)))

\* a call without evidence has returned after a call with evidence, and both trees
\* of the forest were changed by it
C21_Witness ==
    /\ pc = "idle"
    /\ Len(jt.struct) = 2
    /\ Len(hist) = 3
    /\ hist[2].data # <<>>
    /\ \A t \in DOMAIN jt.struct :
          \E ix \in tree_ids(jt.struct[t]) : hist[3].result[ix] # hist[2].result[ix]

\* the ids of the cliques of a tree
clique_ids(tree) == {c[1] : c \in Range(tree_cliques_seq(tree))}

\* C26: at every step of construct_junction_tree each clique id occurs in one tree
\* of the forest, once; a popped candidate whose cliques are in one tree already
\* leaves the forest and the number of selected separators as they are, and an
\* accepted candidate puts one tree with the cliques of both in the place of two.
C26_ForestPartition ==
    /\ [](pc \in {"select", "built", "IndexError"} =>
            \A id \in 0..(Len(cliques) - 1) :
                Count([i \in DOMAIN forest_cliques_seq(forest, 1) |->
                          forest_cliques_seq(forest, 1)[i][1]], id) = 1)
    /\ [][(pc = "select" /\ sheap' # sheap) =>
            LET c1 == popped'[1]
                c2 == popped'[2]
                t1 == CHOOSE t \in DOMAIN forest : c1 \in clique_ids(forest[t])
                t2 == CHOOSE t \in DOMAIN forest : c2 \in clique_ids(forest[t])
            IN IF t1 = t2
               THEN forest' = forest /\ num_selected' = num_selected
               ELSE /\ num_selected' = num_selected + 1
                    /\ Len(forest') = Len(forest) - 1
                    /\ \A t \in DOMAIN forest \ {t1, t2} : forest[t] \in Range(forest')
                    /\ \E n \in DOMAIN forest' :
                          /\ clique_ids(forest'[n]) =
                                clique_ids(forest[t1]) \cup clique_ids(forest[t2])
                          /\ Len(tree_cliques_seq(forest'[n])) =
                                Len(tree_cliques_seq(forest[t1]))
                                    + Len(tree_cliques_seq(forest[t2]))]_vars

\* a candidate was discarded after two candidates had been accepted
C26_Witness ==
    /\ pc = "select"
    /\ popped # <<>>
    /\ popped[3] = "discarded"
    /\ num_selected >= 2

\* the edges of the clique-intersection graph, as sets of two places in cliques
intersection_edges ==
    {{i, j} : i, j \in DOMAIN cliques} \cap
        {e \in SUBSET DOMAIN cliques :
            Cardinality(e) = 2 /\ \A i, j \in e : i # j => cliques[i] \cap cliques[j] # {}}

RECURSIVE separator_size(_)
\* the sum of the sizes of the intersections along a set of edges
separator_size(E) ==
    IF E = {} THEN 0
    ELSE LET e == CHOOSE x \in E : TRUE
             i == CHOOSE x \in e : TRUE
             j == CHOOSE x \in e : x # i
         IN Cardinality(cliques[i] \cap cliques[j]) + separator_size(E \ {e})

\* the spanning trees of the clique-intersection graph
spanning_trees ==
    {T \in SUBSET intersection_edges :
        /\ Cardinality(T) = Len(cliques) - 1
        /\ Connected(DOMAIN cliques, T)}

\* the candidate whose heap entry was popped in the step
popped_candidate == CHOOSE e \in sheap : e \notin sheap'

\* the intersection size and the combined weight of the cliques of a heap entry
candidate_mass(e) ==
    Cardinality(cliques[sepsets[e[3] + 1][2][1] + 1] \cap cliques[sepsets[e[3] + 1][2][2] + 1])

candidate_weight(e) ==
    Prod(cliques[sepsets[e[3] + 1][2][1] + 1], var_sizes)
        + Prod(cliques[sepsets[e[3] + 1][2][2] + 1], var_sizes)

\* C27: for cliques whose intersection graph is connected construct_junction_tree
\* returns one tree with |cliques| - 1 separators whose total size is the largest
\* among the spanning trees of the clique-intersection graph; the candidates are
\* taken by larger intersection first and, among equal ones, smaller combined
\* clique weight first.
C27_MaximumSpanningTree ==
    /\ []((pc = "built" /\ Connected(DOMAIN cliques, intersection_edges)) =>
            /\ Len(forest) = 1
            /\ Len(forest_links_seq(forest, 1)) = Len(cliques) - 1
            /\ \A T \in spanning_trees :
                  separator_size(T) <=
                      separator_size({{l.parent + 1, l.child + 1} :
                                         l \in Range(forest_links_seq(forest, 1))}))
    /\ [][(pc = "select" /\ sheap' # sheap) =>
            \A o \in sheap' :
                \/ candidate_mass(popped_candidate) > candidate_mass(o)
                \/ /\ candidate_mass(popped_candidate) = candidate_mass(o)
                   /\ candidate_weight(popped_candidate) <= candidate_weight(o)]_vars

\* a tree of three cliques or more was returned where a spanning tree of smaller
\* total separator size exists and two candidates of equal intersection size had
\* different combined weights
C27_Witness ==
    /\ pc = "built"
    /\ Len(cliques) >= 3
    /\ Len(forest) = 1
    /\ \E T \in spanning_trees :
          separator_size(T) <
              separator_size({{l.parent + 1, l.child + 1} :
                                 l \in Range(forest_links_seq(forest, 1))})
    /\ \E i, j \in DOMAIN sepsets :
          /\ Cardinality(sepsets[i][1]) = Cardinality(sepsets[j][1])
          /\ candidate_weight(<<0, 0, i - 1>>) < candidate_weight(<<0, 0, j - 1>>)

RECURSIVE subtree_at(_, _), subtree_at_sum(_, _, _)
\* the subtree below the clique c of a tree, <<>> when c is no clique of it
subtree_at(tree, c) ==
    IF tree[1] = c THEN tree ELSE subtree_at_sum(tree, c, 3)

subtree_at_sum(tree, c, i) ==
    IF i > Len(tree) THEN <<>>
    ELSE subtree_at(tree[i][3], c) \o subtree_at_sum(tree, c, i + 1)

\* the adjacencies of a tree without their direction
adjacencies(tree) ==
    {<<{l.parent, l.child}, l.sep, l.sep_keys>> : l \in Range(tree_links_seq(tree))}

\* the cliques of a tree with their keys
cliques_of(tree) == {<<c[1], c[2]>> : c \in Range(tree_cliques_seq(tree))}

\* the cliques on the way from the root to the clique c, both included
path_to(tree, c) == {a \in clique_ids(tree) : c \in clique_ids(subtree_at(tree, a))}

\* C25: change_root(tree, Y) for a clique Y of the tree returns a tree rooted at Y
\* with the same cliques and the same undirected adjacencies, each with the
\* separator id and keys it had; the subtrees off the way from the old root to Y
\* are as before; with Y the root the tree comes back as it is, and with Y no
\* clique of the tree the empty list comes back.
C25_Rerooted ==
    pc = "rerooted" =>
        LET tree == root_call.tree
            Y == root_call.clique_ix
            result == root_call.result
        IN IF Y \notin clique_ids(tree) THEN result = <<>>
           ELSE /\ result # <<>>
                /\ result[1] = Y
                /\ Len(tree_cliques_seq(result)) = Len(tree_cliques_seq(tree))
                /\ cliques_of(result) = cliques_of(tree)
                /\ Len(tree_links_seq(result)) = Len(tree_links_seq(tree))
                /\ adjacencies(result) = adjacencies(tree)
                /\ \A c \in clique_ids(tree) \ path_to(tree, Y) :
                      subtree_at(result, c) = subtree_at(tree, c)
                /\ Y = tree[1] => result = tree

\* a tree was re-rooted at a clique two steps or more below its root while a
\* clique off the way had a child of its own
C25_Witness ==
    /\ pc = "rerooted"
    /\ root_call.clique_ix \in clique_ids(root_call.tree)
    /\ Cardinality(path_to(root_call.tree, root_call.clique_ix)) >= 3
    /\ \E c \in clique_ids(root_call.tree) \ path_to(root_call.tree, root_call.clique_ix) :
          Len(subtree_at(root_call.tree, c)) >= 3
    /\ root_call.result[1] = root_call.clique_ix

====
